---------------------------- MODULE Spec2Model ----------------------------
(***************************************************************************)
(* Model of the vyper module code generator:                               *)
(*   src/vyper/codegen/module.py     _topsort, _runtime_ir,                *)
(*                                   generate_ir_for_module                *)
(*   src/vyper/codegen/self_call.py  _generate_label, _align_kwargs,       *)
(*                                   ir_for_self_call                      *)
(***************************************************************************)
EXTENDS Integers, Sequences, FiniteSets, TLC

VARIABLES
    \* ---- _topsort (module.py 15-34)
    functions,          \* the list handed to _topsort (function names)
    called_functions,   \* f._metadata["type"].called_functions, by name
    function_defs,      \* what _topsort returned, or how it ended
    \* ---- _runtime_ir, generate_ir_for_module (module.py 38-169)
    kind,               \* per function: visibility, payability and role
    immutables_len,     \* global_ctx.immutable_section_bytes
    module_ir,          \* what generate_ir_for_module returned, or how it ended
    \* ---- ir_for_self_call (self_call.py)
    _label_counter,     \* the module-level global of self_call.py
    ctx_vars,           \* internal variables the current context allocated
    call_site,          \* the call expression lowered last, and its context
    start,              \* _label_counter and ctx_vars when that lowering began
    call_ir,            \* what ir_for_self_call returned, or how it ended
    \* ---- one process compiling modules one after the other
    compile_src,        \* call sites lowered so far in the current compile
    compile_ir,         \* their IR, in the same order
    issued,             \* return labels issued in the current compile
    reference           \* an earlier compile of this process, kept to compare

topsortVars == <<functions, called_functions, function_defs>>
moduleVars == <<kind, immutables_len, module_ir>>
callVars == <<_label_counter, ctx_vars, call_site, start, call_ir>>
sessionVars == <<compile_src, compile_ir, issued, reference>>
vars == <<topsortVars, moduleVars, callVars, sessionVars>>

(***************************************************************************)
(* Bounds                                                                  *)
(***************************************************************************)
NumFuncs == 3
MaxEdges == 3
MaxModuleEdges == 2
MaxParams == 2
MaxNested == 1
MaxIssued == 9
MaxSites == 2
MaxLabels == 10

(***************************************************************************)
(* The parts of the state a specification does not use                     *)
(***************************************************************************)
NoCallSite == [ast |-> "None"]
NoCallIr == [status |-> "pending"]

NoSelfCall ==
    /\ _label_counter = 0
    /\ ctx_vars = 0
    /\ call_site = NoCallSite
    /\ start = [counter |-> 0, vars |-> 0]
    /\ call_ir = NoCallIr

NoSession ==
    /\ compile_src = <<>>
    /\ compile_ir = <<>>
    /\ issued = <<>>
    /\ reference = [src |-> <<>>, ir |-> <<>>]

(***************************************************************************)
(* Generic helpers                                                         *)
(***************************************************************************)
Range(s) == {s[i] : i \in 1..Len(s)}

IndexOf(s, x) == CHOOSE i \in 1..Len(s) : s[i] = x

Count(s, x) == Cardinality({i \in 1..Len(s) : s[i] = x})

RECURSIVE SortedBy(_, _)
\* the elements of the finite set S as a list, by increasing rank[x]
SortedBy(S, rank) ==
    IF S = {} THEN <<>>
    ELSE LET m == CHOOSE x \in S : \A y \in S : rank[x] <= rank[y]
         IN <<m>> \o SortedBy(S \ {m}, rank)

(***************************************************************************)
(* Call graphs given to the orderer                                        *)
(***************************************************************************)
FuncNames == 1..NumFuncs

Rankings == {p \in [FuncNames -> FuncNames] : \A a, b \in FuncNames : a # b => p[a] # p[b]}

EdgeSets == {E \in SUBSET (FuncNames \X FuncNames) : Cardinality(E) <= MaxEdges}

\* called_functions lists: the callees of each function, in some source order
CallGraphs ==
    {[f \in FuncNames |-> SortedBy({c \in FuncNames : <<f, c>> \in E}, p)] :
        E \in EdgeSets, p \in Rankings}

RECURSIVE ReachFrom(_, _)
\* the functions reachable from the set S through one or more calls in graph g
ReachFrom(S, g) ==
    LET next == S \cup UNION {Range(g[f]) : f \in S}
    IN IF next = S THEN S ELSE ReachFrom(next, g)

Reachable(f, g) == IF g[f] = <<>> THEN {} ELSE ReachFrom(Range(g[f]), g)

Cyclic(g) == \E f \in DOMAIN g : f \in Reachable(f, g)

(***************************************************************************)
(* module.py 15-34: _topsort_helper, _topsort                              *)
(***************************************************************************)
\* The interpreter's recursion limit, which a recursion that never ends
\* reaches. It is above the deepest recursion of any acyclic graph of
\* NumFuncs functions (one frame for _topsort's call, one per function of
\* a call chain).
RecursionLimit == NumFuncs + 2

RECURSIVE _topsort_helper(_, _, _, _)
RECURSIVE _topsort_helper_loop(_, _, _, _, _, _)

\* the body of "for f in functions" from position i on, ret accumulated
_topsort_helper_loop(fs, i, ret, lookup, called, depth) ==
    IF i > Len(fs) THEN [err |-> FALSE, ret |-> ret]
    ELSE LET f == fs[i]
             callees == [k \in 1..Len(called[f]) |-> lookup[called[f][k]]]
             sub == _topsort_helper(callees, lookup, called, depth + 1)
         IN IF sub.err THEN sub
            ELSE _topsort_helper_loop(fs, i + 1, (ret \o sub.ret) \o <<f>>,
                                      lookup, called, depth)

\* depth is the number of active _topsort_helper frames
_topsort_helper(fs, lookup, called, depth) ==
    IF depth > RecursionLimit THEN [err |-> TRUE, ret |-> <<>>]
    ELSE _topsort_helper_loop(fs, 1, <<>>, lookup, called, depth)

RECURSIVE KeepLastOccurrence(_)
\* faulty variant of StripDuplicates: each element once, at its last occurrence
KeepLastOccurrence(s) ==
    IF s = <<>> THEN <<>>
    ELSE IF \E j \in 2..Len(s) : s[j] = s[1]
         THEN KeepLastOccurrence(Tail(s))
         ELSE <<s[1]>> \o KeepLastOccurrence(Tail(s))

RECURSIVE StripDuplicates(_)
\* list(dict.fromkeys(s)): each element once, at its first occurrence
StripDuplicates(s) ==
    IF s = <<>> THEN <<>>
    ELSE LET init == StripDuplicates(SubSeq(s, 1, Len(s) - 1))
             last == s[Len(s)]
         IN IF last \in Range(init) THEN init ELSE Append(init, last)

_topsort(fs, called) ==
    LET lookup == [n \in Range(fs) |-> n]
        r == _topsort_helper(fs, lookup, called, 1)
    IN IF r.err THEN [status |-> "RecursionError", ret |-> <<>>]
       ELSE [status |-> "ok", ret |-> StripDuplicates(r.ret)]

(***************************************************************************)
(* Specification of the orderer: any call graph, then _topsort             *)
(***************************************************************************)
InitTopsort ==
    /\ functions = [i \in FuncNames |-> i]
    /\ called_functions \in CallGraphs
    /\ function_defs = [status |-> "pending", ret |-> <<>>]
    /\ kind = [f \in FuncNames |-> "internal"]
    /\ immutables_len = 0
    /\ module_ir = [status |-> "pending"]
    /\ NoSelfCall
    /\ NoSession

Topsort ==
    /\ function_defs.status = "pending"
    /\ function_defs' = _topsort(functions, called_functions)
    /\ UNCHANGED <<functions, called_functions, moduleVars, callVars, sessionVars>>

NextTopsort == Topsort

SpecTopsort == InitTopsort /\ [][NextTopsort]_vars

\* C1: for an acyclic call graph the output of _topsort holds each input
\* function exactly once, and every callee reachable from a function
\* (directly or transitively) stands at a strictly smaller index.
C1_TopsortOrder ==
    (function_defs.status # "pending" /\ ~Cyclic(called_functions)) =>
        /\ function_defs.status = "ok"
        /\ \A f \in Range(functions) : Count(function_defs.ret, f) = 1
        /\ Len(function_defs.ret) = Len(functions)
        /\ \A f \in Range(functions) :
             \A c \in Reachable(f, called_functions) :
                IndexOf(function_defs.ret, c) < IndexOf(function_defs.ret, f)

\* a function with a callee it reaches only through another function, and a
\* callee that _topsort_helper emitted more than once
C1_Witness ==
    /\ function_defs.status = "ok"
    /\ ~Cyclic(called_functions)
    /\ \E f \in FuncNames :
         \E c \in Reachable(f, called_functions) :
            /\ c \notin Range(called_functions[f])
            /\ IndexOf(function_defs.ret, c) < IndexOf(function_defs.ret, f)
    /\ \E c \in FuncNames :
         Count(_topsort_helper(functions, [n \in FuncNames |-> n],
                               called_functions, 1).ret, c) > 1

\* C2: a call graph with a cycle ends in a cyclic-call-graph error, never
\* in a recursion without bound.
C2_CycleRejected ==
    (function_defs.status # "pending" /\ Cyclic(called_functions)) =>
        function_defs.status = "CyclicCallGraph"

(***************************************************************************)
(* Modules given to generate_ir_for_module                                 *)
(***************************************************************************)
\* what f._metadata["signature"] says of a function: "internal", or an
\* external function that is regular (payable or not), the fallback
\* (payable or not) or the constructor
Kinds == {"internal", "payable", "nonpayable",
          "fallback_payable", "fallback_nonpayable", "constructor"}

is_internal(k, f) == k[f] = "internal"
is_fallback(k, f) == k[f] \in {"fallback_payable", "fallback_nonpayable"}
is_payable(k, f) == k[f] \in {"payable", "fallback_payable"}
is_constructor(k, f) == k[f] = "constructor"

\* the Module invariant of the data model: at most one constructor, at
\* most one fallback
KindMaps ==
    {k \in [FuncNames -> Kinds] :
        /\ Cardinality({f \in FuncNames : is_constructor(k, f)}) <= 1
        /\ Cardinality({f \in FuncNames : is_fallback(k, f)}) <= 1}

\* self-calls go to internal functions only
ModuleEdgeSets(k) ==
    {E \in SUBSET (FuncNames \X {c \in FuncNames : is_internal(k, c)}) :
        Cardinality(E) <= MaxModuleEdges}

ModuleCallGraphs(k) ==
    {[f \in FuncNames |-> SortedBy({c \in FuncNames : <<f, c>> \in E}, p)] :
        E \in ModuleEdgeSets(k), p \in Rankings}

\* the sizes of immutable sections tried
ImmutableSizes == {0, 32}

\* frame_info.mem_used of a function, as the semantic layer assigned it
mem_used(f) == 32 * f

(***************************************************************************)
(* IR nodes. The per-function code generator is a collaborator: its tree   *)
(* is kept as the function it was made for and the skip flag it got.       *)
(***************************************************************************)
generate_ir_for_function(f, skip_nonpayable_check) ==
    [op |-> "func_ir", name |-> f, skip_nonpayable_check |-> skip_nonpayable_check]

AssertNoValue ==
    [op |-> "assert",
     args |-> <<[op |-> "iszero", args |-> <<[op |-> "callvalue"]>>]>>]

DefaultFallback == [op |-> "revert", annotation |-> "Default function"]

SeqNode(children) == [op |-> "seq", args |-> children]

\* [x for x in s if Test(x)]
Filter(s, Test(_)) == SelectSeq(s, Test)

MapSeq(s, F(_)) == [i \in 1..Len(s) |-> F(s[i])]

(***************************************************************************)
(* module.py 38-115: _runtime_ir                                           *)
(***************************************************************************)
DefaultFunctionOf(k, external_functions) ==
    LET fb == Filter(external_functions, LAMBDA f : is_fallback(k, f))
    IN IF fb = <<>> THEN 0 ELSE fb[1]

\* faulty variant of batch_payable_check: the fallback's payability ignored
BatchEvenIfPayableFallback(nonpayables, default_is_nonpayable) ==
    Len(nonpayables) > 0

\* module.py 74
batch_payable_check(nonpayables, default_is_nonpayable) ==
    Len(nonpayables) > 0 /\ default_is_nonpayable

\* faulty variant of selector_section: the assertion after the nonpayables
AssertAfterNonpayables(payable_irs, batch, nonpayable_irs) ==
    SeqNode((payable_irs \o nonpayable_irs)
            \o (IF batch THEN <<AssertNoValue>> ELSE <<>>))

\* module.py 77-88
selector_section(payable_irs, batch, nonpayable_irs) ==
    SeqNode((payable_irs \o (IF batch THEN <<AssertNoValue>> ELSE <<>>))
            \o nonpayable_irs)

_runtime_ir(runtime_functions, k) ==
    LET internal_functions == Filter(runtime_functions, LAMBDA f : is_internal(k, f))
        external_functions == Filter(runtime_functions, LAMBDA f : ~is_internal(k, f))
        default_function == DefaultFunctionOf(k, external_functions)
        regular_functions == Filter(external_functions, LAMBDA f : ~is_fallback(k, f))
        payables == Filter(regular_functions, LAMBDA f : is_payable(k, f))
        nonpayables == Filter(regular_functions, LAMBDA f : ~is_payable(k, f))
        internal_functions_map ==
            [f \in Range(internal_functions) |-> generate_ir_for_function(f, FALSE)]
        internal_irs == MapSeq(internal_functions, LAMBDA f : internal_functions_map[f])
        default_is_nonpayable ==
            default_function = 0 \/ ~is_payable(k, default_function)
        batch == batch_payable_check(nonpayables, default_is_nonpayable)
        skip_nonpayable_check == batch
        section ==
            selector_section(
                MapSeq(payables, LAMBDA f : generate_ir_for_function(f, FALSE)),
                batch,
                MapSeq(nonpayables,
                       LAMBDA f : generate_ir_for_function(f, skip_nonpayable_check)))
        fallback_ir ==
            IF default_function # 0
            THEN generate_ir_for_function(default_function, skip_nonpayable_check)
            ELSE DefaultFallback
        close_selector_section == [op |-> "goto", label |-> "fallback"]
    IN IF Len(external_functions) = 0
       THEN [runtime |-> SeqNode(internal_irs),
             internal_functions |-> internal_functions_map]
       ELSE [runtime |->
                SeqNode(<<[op |-> "with", name |-> "_calldata_method_id",
                           args |-> <<section>>],
                          close_selector_section,
                          [op |-> "label", label |-> "fallback",
                           args |-> <<fallback_ir>>]>>
                        \o internal_irs),
             internal_functions |-> internal_functions_map]

(***************************************************************************)
(* module.py 120-169: generate_ir_for_module                               *)
(* The signature tables (all_funcs, local_funcs) are not modelled: they    *)
(* are handed through to the per-function generator and returned. Lines    *)
(* 151 and 169 name them all_sigs and local_sigs, which nothing binds; the *)
(* model follows the tables built at lines 125-141.                        *)
(***************************************************************************)
\* module.py 161-162: the internal functions attached after the deploy node
DeployTail(init_function, called, internal_functions) ==
    MapSeq(called[init_function], LAMBDA f : internal_functions[f])

generate_ir_for_module(fs, called, k, imm_len) ==
    LET sorted == _topsort(fs, called)
        function_defs_ == sorted.ret
        runtime_functions == Filter(function_defs_, LAMBDA f : ~is_constructor(k, f))
        ctors == Filter(function_defs_, LAMBDA f : is_constructor(k, f))
        init_function == IF ctors = <<>> THEN 0 ELSE ctors[1]
        rt == _runtime_ir(runtime_functions, k)
    IN IF sorted.status # "ok" THEN [status |-> sorted.status]
       ELSE IF init_function # 0
       THEN [status |-> "ok",
             runtime |-> rt.runtime,
             deploy |->
                SeqNode(<<generate_ir_for_function(init_function, FALSE),
                          [op |-> "deploy", mem_ofst |-> mem_used(init_function),
                           args |-> <<rt.runtime>>, padding |-> imm_len]>>
                        \o DeployTail(init_function, called, rt.internal_functions))]
       ELSE IF imm_len # 0 THEN [status |-> "CompilerPanic"]
       ELSE [status |-> "ok",
             runtime |-> rt.runtime,
             deploy |->
                SeqNode(<<[op |-> "deploy", mem_ofst |-> 0,
                           args |-> <<rt.runtime>>, padding |-> 0]>>)]

(***************************************************************************)
(* Specification of module assembly: any module, then                      *)
(* generate_ir_for_module                                                  *)
(***************************************************************************)
InitModule ==
    /\ functions = [i \in FuncNames |-> i]
    /\ kind \in KindMaps
    /\ called_functions \in ModuleCallGraphs(kind)
    /\ immutables_len \in ImmutableSizes
    /\ function_defs = [status |-> "pending", ret |-> <<>>]
    /\ module_ir = [status |-> "pending"]
    /\ NoSelfCall
    /\ NoSession

GenerateIrForModule ==
    /\ module_ir.status = "pending"
    /\ function_defs' = _topsort(functions, called_functions)
    /\ module_ir' = generate_ir_for_module(functions, called_functions, kind,
                                           immutables_len)
    /\ UNCHANGED <<functions, called_functions, kind, immutables_len,
                   callVars, sessionVars>>

NextModule == GenerateIrForModule

SpecModule == InitModule /\ [][NextModule]_vars

(***************************************************************************)
(* Execution of a runtime tree on one incoming call (the IR vocabulary of  *)
(* the downstream assembler). A regular external function's tree runs its  *)
(* body when the selector is its method id, after its own value check if   *)
(* it is nonpayable and was generated with skip flag false, and otherwise  *)
(* falls through; the fallback's tree does the same for every selector.    *)
(* The method id of function f is f; selector 0 is no function's.          *)
(***************************************************************************)
Selectors == 0..NumFuncs
CallValues == {0, 1}

Reverted == [result |-> "revert", name |-> 0]
Body(f) == [result |-> "body", name |-> f]
FallThrough == [result |-> "fallthrough", name |-> 0]
NoDispatch == [result |-> "no_dispatch", name |-> 0]

ExecFuncIr(node, k, matches, value) ==
    IF ~matches THEN FallThrough
    ELSE IF ~is_payable(k, node.name) /\ ~node.skip_nonpayable_check /\ value # 0
    THEN Reverted
    ELSE Body(node.name)

RECURSIVE ExecSection(_, _, _, _, _)
ExecSection(children, i, k, sel, value) ==
    IF i > Len(children) THEN FallThrough
    ELSE LET node == children[i]
             r == IF node.op = "assert"
                  THEN (IF value # 0 THEN Reverted ELSE FallThrough)
                  ELSE ExecFuncIr(node, k, sel = node.name, value)
         IN IF r = FallThrough THEN ExecSection(children, i + 1, k, sel, value)
            ELSE r

HasDispatch(runtime) == Len(runtime.args) > 0 /\ runtime.args[1].op = "with"

DispatchBody(runtime) == runtime.args[1].args[1].args

FallbackIr(runtime) == runtime.args[3].args[1]

ExecRuntime(runtime, k, sel, value) ==
    IF ~HasDispatch(runtime) THEN NoDispatch
    ELSE LET r == ExecSection(DispatchBody(runtime), 1, k, sel, value)
             fb == FallbackIr(runtime)
         IN IF r # FallThrough THEN r
            ELSE IF fb.op = "revert" THEN Reverted
            ELSE ExecFuncIr(fb, k, TRUE, value)

\* the dispatch in which every nonpayable function and a nonpayable
\* fallback check the value themselves (none is built for a module with no
\* external function)
ReferenceDispatch(k, sel, value) ==
    LET fbs == {f \in FuncNames : is_fallback(k, f)}
        fb == CHOOSE f \in fbs : TRUE
    IN IF \A f \in FuncNames : k[f] \in {"internal", "constructor"}
       THEN NoDispatch
       ELSE IF sel \in FuncNames /\ k[sel] = "payable" THEN Body(sel)
       ELSE IF sel \in FuncNames /\ k[sel] = "nonpayable"
       THEN (IF value = 0 THEN Body(sel) ELSE Reverted)
       ELSE IF fbs = {} THEN Reverted
       ELSE IF k[fb] = "fallback_payable" \/ value = 0 THEN Body(fb)
       ELSE Reverted

(***************************************************************************)
(* Claims on module assembly                                               *)
(***************************************************************************)
HasExternal == \E f \in FuncNames : kind[f] \notin {"internal", "constructor"}

\* batch_payable_check as the specification states it
BatchExpected ==
    /\ \E f \in FuncNames : kind[f] = "nonpayable"
    /\ \A f \in FuncNames : kind[f] # "fallback_payable"

AssertPositions(body) == {i \in 1..Len(body) : body[i] = AssertNoValue}

\* C4: with at least one external function, if batch_payable_check (at
\* least one nonpayable regular function, and no fallback or a nonpayable
\* one) is true the dispatch body holds exactly one assert(iszero(callvalue)),
\* after every payable function's IR and before every nonpayable
\* function's IR, and every nonpayable function is generated with skip flag
\* true; if it is false there is no such assertion and every nonpayable
\* function is generated with skip flag false.
C4_BatchPayableCheck ==
    (module_ir.status = "ok" /\ HasExternal) =>
        LET body == DispatchBody(module_ir.runtime)
            Pos(f) == {i \in 1..Len(body) : body[i].op = "func_ir" /\ body[i].name = f}
        IN /\ HasDispatch(module_ir.runtime)
           /\ \A f \in FuncNames :
                kind[f] \in {"payable", "nonpayable"} => Cardinality(Pos(f)) = 1
           /\ Cardinality(AssertPositions(body)) = (IF BatchExpected THEN 1 ELSE 0)
           /\ \A f \in FuncNames : \A i \in Pos(f) :
                /\ kind[f] = "nonpayable" =>
                      body[i].skip_nonpayable_check = BatchExpected
                /\ \A a \in AssertPositions(body) :
                      /\ kind[f] = "payable" => i < a
                      /\ kind[f] = "nonpayable" => a < i

\* a module with a payable and a nonpayable function, compiled with the
\* batched assertion between them
C4_Witness ==
    /\ module_ir.status = "ok"
    /\ BatchExpected
    /\ \E f, g \in FuncNames : kind[f] = "payable" /\ kind[g] = "nonpayable"
    /\ AssertPositions(DispatchBody(module_ir.runtime)) # {}

\* C6: with a constructor, the deploy tree holds, after the deploy node,
\* the IR of every internal function the constructor reaches through the
\* call graph, directly or through other internal functions.
C6_DeployHasReachable ==
    (module_ir.status = "ok" /\ \E f \in FuncNames : kind[f] = "constructor") =>
        LET init == CHOOSE f \in FuncNames : kind[f] = "constructor"
            tree == module_ir.deploy.args
            d == CHOOSE i \in 1..Len(tree) : tree[i].op = "deploy"
        IN \A g \in Reachable(init, called_functions) :
              \E i \in (d + 1)..Len(tree) :
                 tree[i] = generate_ir_for_function(g, FALSE)

\* C10: for every selector and call value the runtime tree ends as the
\* reference dispatch does (the same body runs, or both revert); no
\* nonpayable function or fallback runs with a nonzero value, and a payable
\* function or fallback is never stopped by the batched assertion.
C10_BatchingPreservesDispatch ==
    module_ir.status = "ok" =>
        \A sel \in Selectors : \A value \in CallValues :
            LET r == ExecRuntime(module_ir.runtime, kind, sel, value)
            IN /\ r = ReferenceDispatch(kind, sel, value)
               /\ (r.result = "body" /\ value # 0) =>
                     kind[r.name] \in {"payable", "fallback_payable"}
               /\ (sel \in FuncNames /\ kind[sel] = "payable") => r = Body(sel)
               /\ ((sel \notin FuncNames \/ kind[sel] \notin {"payable", "nonpayable"})
                   /\ \E f \in FuncNames : kind[f] = "fallback_payable") =>
                     r.result = "body" /\ kind[r.name] = "fallback_payable"

\* a batched module where a call carrying value to a nonpayable function
\* reverts at the batched assertion and the same call to a payable function
\* runs it
C10_Witness ==
    /\ module_ir.status = "ok"
    /\ HasDispatch(module_ir.runtime)
    /\ AssertPositions(DispatchBody(module_ir.runtime)) # {}
    /\ \E f, g \in FuncNames :
         /\ kind[f] = "payable" /\ kind[g] = "nonpayable"
         /\ ExecRuntime(module_ir.runtime, kind, f, 1) = Body(f)
         /\ ExecRuntime(module_ir.runtime, kind, g, 1) = Reverted
         /\ ExecRuntime(module_ir.runtime, kind, g, 0) = Body(g)

(***************************************************************************)
(* self_call.py 7-14: the label allocator                                  *)
(***************************************************************************)
RECURSIVE Decimal(_)
\* the decimal digits of n, as the f-string writes them
Decimal(n) == IF n < 10 THEN <<n>> ELSE Append(Decimal(n \div 10), n % 10)

\* f"label{_label_counter}"
LabelName(n) == [prefix |-> "label", digits |-> Decimal(n)]

\* faulty variant of _generate_label: the global is not incremented
GenerateLabelWithoutIncrement(counter) ==
    [counter |-> counter, label |-> LabelName(counter)]

\* one call of _generate_label with the global at counter: the new value of
\* the global and the label returned
_generate_label(counter) ==
    [counter |-> counter + 1, label |-> LabelName(counter + 1)]

(***************************************************************************)
(* Call expressions: the callee's signature and the argument expressions.  *)
(* An argument is a literal (tagged with its position), a self-call, or an *)
(* operator applied to a self-call and a literal.                          *)
(***************************************************************************)
ReturnTypes == {"None", "uint256"}

FuncT(name, min, max, ret, internal, modifying) ==
    [name |-> name, min_arg_count |-> min, max_arg_count |-> max,
     return_type |-> ret, is_internal |-> internal, is_modifying |-> modifying]

\* callees: every arity and return type for a plain internal function, one
\* state-modifying function and one external function
FuncTs ==
    {FuncT("f", min, max, ret, TRUE, FALSE) :
        min \in 0..MaxParams, max \in 0..MaxParams, ret \in ReturnTypes}
    \cup {FuncT("m", 1, 1, "uint256", TRUE, TRUE),
          FuncT("e", 1, 1, "uint256", FALSE, FALSE)}

ValidFuncTs == {ft \in FuncTs : ft.min_arg_count <= ft.max_arg_count}

\* frame_info.frame_start of a callee, as the semantic layer assigned it
frame_start(func_t) == IF func_t.name = "h" THEN 640 ELSE 320

Lit(k, i) == [ast |-> "Lit", kind |-> k, pos |-> i]

Call(func_t, args) == [ast |-> "Call", func_t |-> func_t, args |-> args]

BinOp(l, r) == [ast |-> "BinOp", args |-> <<l, r>>]

CalleeH == FuncT("h", 0, 0, "uint256", TRUE, FALSE)

ArgKinds == {"lit", "call_h", "binop_h", "call_same"}

ArgExpr(k, i, func_t) ==
    IF k = "lit" THEN Lit("arg", i)
    ELSE IF k = "call_h" THEN Call(CalleeH, <<>>)
    ELSE IF k = "binop_h" THEN BinOp(Call(CalleeH, <<>>), Lit("arg", i))
    ELSE Call(func_t, [j \in 1..func_t.max_arg_count |-> Lit("inner", j)])

ArgShapes ==
    UNION {[1..n -> ArgKinds] : n \in 0..(MaxParams + 1)}

ArgShapesFor(ft) ==
    {x \in ArgShapes :
        /\ Cardinality({i \in DOMAIN x : x[i] # "lit"}) <= MaxNested
        /\ \A i \in DOMAIN x :
              x[i] = "call_same" => ft.return_type # "None" /\ ft.is_internal}

CallExprs ==
    UNION {{Call(ft, [i \in DOMAIN sh |-> ArgExpr(sh[i], i, ft)]) :
                sh \in ArgShapesFor(ft)} : ft \in ValidFuncTs}

RECURSIVE HasNestedCall(_)
\* whether an argument expression holds a self-call anywhere
HasNestedCall(x) ==
    \/ x.ast = "Call"
    \/ x.ast = "BinOp" /\ \E i \in 1..Len(x.args) : HasNestedCall(x.args[i])

(***************************************************************************)
(* IR nodes of a lowered self-call. Every node has op, args and            *)
(* is_self_call.                                                           *)
(***************************************************************************)
Node(op, args) == [op |-> op, args |-> args, is_self_call |-> FALSE]

\* IRnode(frame_start, location=MEMORY): the callee's fixed frame
FrameNode(func_t) ==
    [op |-> "mem", args |-> <<>>, is_self_call |-> FALSE,
     region |-> "frame", addr |-> frame_start(func_t)]

\* context.new_internal_variable: the k-th internal variable of the context
InternalVariable(k) ==
    [op |-> "mem", args |-> <<>>, is_self_call |-> FALSE,
     region |-> "internal_variable", addr |-> k]

make_setter(dst, src) == Node("make_setter", <<dst, src>>)

push_label_to_stack(label) ==
    [op |-> "push_label", args |-> <<>>, is_self_call |-> FALSE, label |-> label]

LabelDef(label) ==
    [op |-> "label", args |-> <<Node("var_list", <<>>), Node("pass", <<>>)>>,
     is_self_call |-> FALSE, label |-> label]

\* eval_once_check(_freshname(call_expr.node_source_code))
eval_once_check(call_expr) ==
    [op |-> "eval_once_check", args |-> <<>>, is_self_call |-> FALSE,
     source |-> [callee |-> call_expr.func_t.name, nargs |-> Len(call_expr.args)]]

RECURSIVE contains_self_call(_)
contains_self_call(node) ==
    \/ node.is_self_call
    \/ \E i \in 1..Len(node.args) : contains_self_call(node.args[i])

(***************************************************************************)
(* self_call.py 17-40: _align_kwargs                                       *)
(* Lines 34-40 read args_ir and sig, which the function does not bind;     *)
(* they are taken as its parameters pos_args_ir and func_t.                *)
(***************************************************************************)
\* func_t.default_values: the default expressions of the parameters after
\* the first min_arg_count, in parameter order
default_values(func_t) ==
    [i \in 1..(func_t.max_arg_count - func_t.min_arg_count) |->
        Lit("default", func_t.min_arg_count + i)]

_align_kwargs(func_t, pos_args_ir) ==
    IF ~func_t.is_internal THEN [status |-> "CompilerPanic", kw_vals |-> <<>>]
    ELSE IF ~(func_t.min_arg_count <= Len(pos_args_ir)
              /\ Len(pos_args_ir) <= func_t.max_arg_count)
    THEN [status |-> "CompilerPanic", kw_vals |-> <<>>]
    ELSE LET num_provided_kwargs == Len(pos_args_ir) - func_t.min_arg_count
             num_kwargs == func_t.max_arg_count - func_t.min_arg_count
             kwargs_needed == num_kwargs - num_provided_kwargs
         IN [status |-> "ok",
             kw_vals |-> SubSeq(default_values(func_t), 1, kwargs_needed)]

(***************************************************************************)
(* self_call.py 42-138: ir_for_self_call                                   *)
(* st is the state a lowering reads and writes: the global label counter,  *)
(* the context's internal variables, and the labels issued.                *)
(***************************************************************************)
\* faulty variant of copy_args: the composite always written to the frame
CopyArgsNeverStaged(sig, args_as_tuple, nvars) ==
    [ir |-> make_setter(FrameNode(sig), args_as_tuple), vars |-> nvars]

\* self_call.py 92-114
\* nvars is the number of internal variables the context holds
copy_args(sig, args_as_tuple, nvars) ==
    LET args_dst == FrameNode(sig)
        tmp_args_buf == InternalVariable(nvars)
    IN IF contains_self_call(args_as_tuple)
       THEN [ir |-> Node("seq", <<make_setter(tmp_args_buf, args_as_tuple),
                                  make_setter(args_dst, tmp_args_buf)>>),
             vars |-> nvars + 1]
       ELSE [ir |-> make_setter(args_dst, args_as_tuple), vars |-> nvars]

\* faulty variant of call_sequence: the label defined before the goto
CallSequenceLabelFirst(guard, copy, goto_op, label_def, return_buffer) ==
    (<<guard, copy, label_def, goto_op>>) \o return_buffer

\* self_call.py 123-128; return_buffer is a list of no or one node
call_sequence(guard, copy, goto_op, label_def, return_buffer) ==
    (<<guard, copy, goto_op, label_def>>) \o return_buffer

RECURSIVE ir_for_self_call(_, _, _)
RECURSIVE Expr(_, _, _)
RECURSIVE ExprList(_, _, _)

\* [Expr(x, context).ir_node for x in xs], left to right
ExprList(xs, is_constant, st) ==
    IF xs = <<>> THEN [status |-> "ok", irs |-> <<>>, st |-> st]
    ELSE LET h == Expr(xs[1], is_constant, st)
         IN IF h.status # "ok" THEN [status |-> h.status, irs |-> <<>>, st |-> h.st]
            ELSE LET t == ExprList(Tail(xs), is_constant, h.st)
                 IN [status |-> t.status, irs |-> <<h.ir>> \o t.irs, st |-> t.st]

\* the expression code generator, which lowers a self-call by
\* ir_for_self_call
Expr(x, is_constant, st) ==
    IF x.ast = "Call" THEN ir_for_self_call(x, is_constant, st)
    ELSE IF x.ast = "BinOp"
    THEN LET r == ExprList(x.args, is_constant, st)
         IN IF r.status # "ok" THEN [status |-> r.status, st |-> r.st]
            ELSE [status |-> "ok", ir |-> Node("add", r.irs), st |-> r.st]
    ELSE [status |-> "ok",
          ir |-> [op |-> "lit", args |-> <<>>, is_self_call |-> FALSE,
                  kind |-> x.kind, pos |-> x.pos],
          st |-> st]

ir_for_self_call(call_expr, is_constant, st) ==
    LET func_t == call_expr.func_t
        pos == ExprList(call_expr.args, is_constant, st)
        al == _align_kwargs(func_t, pos.irs)
        sig == func_t
        kw == ExprList(al.kw_vals, is_constant, pos.st)
        args_ir == pos.irs \o kw.irs
        args_as_tuple == Node("multi", args_ir)
        lab == _generate_label(kw.st.counter)
        return_label == lab.label
        has_buffer == sig.return_type # "None"
        return_buffer ==
            IF has_buffer THEN <<InternalVariable(kw.st.vars)>> ELSE <<>>
        vars1 == IF has_buffer THEN kw.st.vars + 1 ELSE kw.st.vars
        copy == copy_args(sig, args_as_tuple, vars1)
        goto_op ==
            [op |-> "goto", is_self_call |-> FALSE, target |-> sig.name,
             args |-> return_buffer \o <<push_label_to_stack(return_label)>>]
        o == [op |-> "seq", is_self_call |-> TRUE, typ |-> sig.return_type,
              args |-> call_sequence(eval_once_check(call_expr), copy.ir, goto_op,
                                     LabelDef(return_label), return_buffer)]
    IN IF pos.status # "ok" THEN [status |-> pos.status, st |-> pos.st]
       ELSE IF al.status # "ok" THEN [status |-> al.status, st |-> pos.st]
       ELSE IF kw.status # "ok" THEN [status |-> kw.status, st |-> kw.st]
       ELSE IF is_constant /\ func_t.is_modifying
       THEN [status |-> "StateAccessViolation", st |-> kw.st]
       ELSE IF ~sig.is_internal
       THEN [status |-> "StructureException", st |-> kw.st]
       ELSE [status |-> "ok", ir |-> o,
             st |-> [counter |-> lab.counter, vars |-> copy.vars,
                     issued |-> Append(kw.st.issued, return_label)]]

(***************************************************************************)
(* Specification of one lowering: any call expression, in a context that   *)
(* is constant or not, after any number of labels issued before            *)
(***************************************************************************)
InitSelfCall ==
    /\ _label_counter \in 0..MaxIssued
    /\ ctx_vars = 0
    /\ call_site \in {[ast |-> "Call", expr |-> e, is_constant |-> c] :
                        e \in CallExprs, c \in BOOLEAN}
    /\ start = [counter |-> _label_counter, vars |-> ctx_vars]
    /\ call_ir = NoCallIr
    /\ issued = <<>>
    /\ compile_src = <<>>
    /\ compile_ir = <<>>
    /\ reference = [src |-> <<>>, ir |-> <<>>]
    /\ functions = <<>>
    /\ called_functions = <<>>
    /\ function_defs = [status |-> "pending", ret |-> <<>>]
    /\ kind = <<>>
    /\ immutables_len = 0
    /\ module_ir = [status |-> "pending"]

IrForSelfCall ==
    /\ call_ir.status = "pending"
    /\ LET r == ir_for_self_call(call_site.expr, call_site.is_constant,
                                 [counter |-> _label_counter, vars |-> ctx_vars,
                                  issued |-> issued])
       IN /\ call_ir' = (IF r.status = "ok" THEN [status |-> "ok", ir |-> r.ir]
                         ELSE [status |-> r.status])
          /\ _label_counter' = r.st.counter
          /\ ctx_vars' = r.st.vars
          /\ issued' = r.st.issued
    /\ UNCHANGED <<call_site, start, compile_src, compile_ir, reference,
                   topsortVars, moduleVars>>

NextSelfCall == IrForSelfCall

SpecSelfCall == InitSelfCall /\ [][NextSelfCall]_vars

(***************************************************************************)
(* Claims on one lowering                                                  *)
(***************************************************************************)
Lowered == call_ir.status = "ok"

SiteFuncT == call_site.expr.func_t

SiteArgs == call_site.expr.args

SiteHasNestedCall == \E i \in 1..Len(SiteArgs) : HasNestedCall(SiteArgs[i])

\* the parts of the tree ir_for_self_call returned
CopyPart == call_ir.ir.args[2]

IsFrameWrite(node, func_t) ==
    node.op = "make_setter" /\ node.args[1] = FrameNode(func_t)

\* the composite handed to the callee: the value the first setter of the
\* copy sequence reads
Composite ==
    IF CopyPart.op = "seq" THEN CopyPart.args[1].args[2] ELSE CopyPart.args[2]

RECURSIVE InternalVariablesIn(_)
\* the internal variables a tree mentions
InternalVariablesIn(node) ==
    (IF node.op = "mem" /\ node.region = "internal_variable" THEN {node.addr} ELSE {})
    \cup UNION {InternalVariablesIn(node.args[i]) : i \in 1..Len(node.args)}

RECURSIVE FrameWritesIn(_, _)
\* how many setters in a tree write the frame of func_t
FrameWritesIn(node, func_t) ==
    LET Sum[i \in 0..Len(node.args)] ==
            IF i = 0 THEN 0 ELSE Sum[i - 1] + FrameWritesIn(node.args[i], func_t)
    IN (IF IsFrameWrite(node, func_t) THEN 1 ELSE 0) + Sum[Len(node.args)]

\* the internal variables the lowering allocated for itself: all it
\* allocated but those inside the lowered arguments
OwnVariables ==
    (start.vars..(ctx_vars - 1)) \ InternalVariablesIn(Composite)

\* C3: with no nested self-call in the arguments the composite is written
\* straight into the callee's frame and no temporary buffer is allocated;
\* with one, a temporary buffer is allocated, the arguments (nested calls
\* included) are evaluated into it, and exactly one copy from the buffer
\* into the callee's frame follows every argument-evaluation subtree.
C3_ArgumentStaging ==
    Lowered =>
        IF ~SiteHasNestedCall
        THEN /\ IsFrameWrite(CopyPart, SiteFuncT)
             /\ CopyPart.args[2].op = "multi"
             /\ OwnVariables
                  = (IF SiteFuncT.return_type = "None" THEN {} ELSE {start.vars})
        ELSE /\ CopyPart.op = "seq" /\ Len(CopyPart.args) = 2
             /\ LET stage == CopyPart.args[1]
                    bulk == CopyPart.args[2]
                    tmp == stage.args[1]
                IN /\ stage.op = "make_setter"
                   /\ tmp.op = "mem" /\ tmp.region = "internal_variable"
                   /\ tmp.addr \in OwnVariables
                   /\ tmp.addr \notin InternalVariablesIn(call_ir.ir.args[3])
                   /\ stage.args[2].op = "multi"
                   /\ contains_self_call(stage.args[2])
                   /\ bulk = make_setter(FrameNode(SiteFuncT), tmp)
                   \* the one write of this call to the frame is the bulk copy
                   /\ ~IsFrameWrite(stage, SiteFuncT)
                   /\ \A i \in 1..Len(stage.args[2].args) :
                         ~IsFrameWrite(stage.args[2].args[i], SiteFuncT)

\* a lowered call with a nested self-call among its arguments, staged
C3_Witness ==
    /\ Lowered
    /\ SiteHasNestedCall
    /\ Len(SiteArgs) >= 2
    /\ CopyPart.op = "seq"
    /\ \E i \in 1..Len(Composite.args) : Composite.args[i].is_self_call

\* C5: for n supplied arguments within [min_arg_count, max_arg_count] the
\* composite has max_arg_count elements: element i <= n is the i-th
\* supplied argument, element i > n is the default of the i-th parameter.
C5_DefaultsOfMissingParameters ==
    Lowered =>
        /\ Len(Composite.args) = SiteFuncT.max_arg_count
        /\ \A i \in 1..Len(Composite.args) :
              IF i <= Len(SiteArgs)
              THEN Composite.args[i]
                      = Expr(SiteArgs[i], call_site.is_constant,
                             [counter |-> 0, vars |-> 0, issued |-> <<>>]).ir
                   \/ SiteArgs[i].ast # "Lit"
              ELSE /\ Composite.args[i].op = "lit"
                   /\ Composite.args[i].kind = "default"
                   /\ Composite.args[i].pos = i

\* C8: the IR of a lowered self-call is, in this order, the evaluate-once
\* guard, the argument copy, a goto to the callee's entry label carrying the
\* return buffer (only if the callee has a return type) and then the pushed
\* return label, the definition of that same label with a no-op body, and,
\* if and only if there is a return buffer, its address last; a callee that
\* returns nothing gets no return buffer.
C8_CallSequence ==
    Lowered =>
        LET seq == call_ir.ir.args
            returns == SiteFuncT.return_type # "None"
            goto_op == seq[3]
            label_def == seq[4]
            pushed == goto_op.args[Len(goto_op.args)]
        IN /\ call_ir.ir.op = "seq"
           /\ Len(seq) = (IF returns THEN 5 ELSE 4)
           /\ seq[1].op = "eval_once_check"
           /\ seq[2] = CopyPart
           /\ FrameWritesIn(seq[2], SiteFuncT) >= 1
           /\ goto_op.op = "goto" /\ goto_op.target = SiteFuncT.name
           /\ Len(goto_op.args) = (IF returns THEN 2 ELSE 1)
           /\ pushed.op = "push_label"
           /\ label_def.op = "label" /\ label_def.label = pushed.label
           /\ label_def.label = LabelName(_label_counter)
           /\ label_def.args[Len(label_def.args)].op = "pass"
           /\ returns =>
                 /\ seq[5].op = "mem" /\ seq[5].region = "internal_variable"
                 /\ seq[5].addr \in OwnVariables
                 /\ goto_op.args[1] = seq[5]
           /\ ~returns =>
                 /\ OwnVariables \subseteq InternalVariablesIn(seq[2])
                 /\ InternalVariablesIn(goto_op) = {}

\* a lowered call to a callee that returns nothing, with a nested self-call
\* among its arguments: two labels issued, the later one for this call
C8_Witness ==
    /\ Lowered
    /\ SiteFuncT.return_type = "None"
    /\ Len(call_ir.ir.args) = 4
    /\ SiteHasNestedCall
    /\ _label_counter = start.counter + 2

(***************************************************************************)
(* Specification of a process that compiles modules one after the other.   *)
(* Each compile begins with a fresh context; _label_counter is the global  *)
(* of self_call.py, set to 0 when the module is imported and written by    *)
(* _generate_label alone.                                                  *)
(***************************************************************************)
CalleeF == FuncT("f", 1, 1, "uint256", TRUE, FALSE)
CalleeG == FuncT("g", 1, 1, "None", TRUE, FALSE)

\* the call sites of the modules compiled: f(1), f(f(1)), g(1)
SessionExprs ==
    {Call(CalleeF, <<Lit("arg", 1)>>),
     Call(CalleeF, <<Call(CalleeF, <<Lit("inner", 1)>>)>>),
     Call(CalleeG, <<Lit("arg", 1)>>)}

InitSession ==
    /\ NoSelfCall
    /\ NoSession
    /\ functions = <<>>
    /\ called_functions = <<>>
    /\ function_defs = [status |-> "pending", ret |-> <<>>]
    /\ kind = <<>>
    /\ immutables_len = 0
    /\ module_ir = [status |-> "pending"]

\* the per-function generator reaches a self-call expression of the module
\* being compiled and lowers it
LowerCallSite(e) ==
    /\ Len(compile_src) < MaxSites
    /\ _label_counter < MaxLabels
    /\ LET r == ir_for_self_call(e, FALSE,
                                 [counter |-> _label_counter, vars |-> ctx_vars,
                                  issued |-> issued])
       IN /\ r.status = "ok"
          /\ call_site' = [ast |-> "Call", expr |-> e, is_constant |-> FALSE]
          /\ start' = [counter |-> _label_counter, vars |-> ctx_vars]
          /\ call_ir' = [status |-> "ok", ir |-> r.ir]
          /\ _label_counter' = r.st.counter
          /\ ctx_vars' = r.st.vars
          /\ issued' = r.st.issued
          /\ compile_src' = Append(compile_src, e)
          /\ compile_ir' = Append(compile_ir, r.ir)
    /\ UNCHANGED <<reference, topsortVars, moduleVars>>

\* the compile of the current module ends and the next one begins; keep
\* says whether the ended compile is kept as the one to compare with
EndCompile(keep) ==
    /\ compile_src # <<>>
    /\ reference' = (IF keep THEN [src |-> compile_src, ir |-> compile_ir]
                     ELSE reference)
    /\ compile_src' = <<>>
    /\ compile_ir' = <<>>
    /\ issued' = <<>>
    /\ ctx_vars' = 0
    /\ call_site' = NoCallSite
    /\ call_ir' = NoCallIr
    /\ start' = [counter |-> _label_counter, vars |-> 0]
    /\ UNCHANGED <<_label_counter, topsortVars, moduleVars>>

NextSession ==
    \/ \E e \in SessionExprs : LowerCallSite(e)
    \/ \E keep \in BOOLEAN : EndCompile(keep)

SpecSession == InitSession /\ [][NextSession]_vars

\* C7: within one module compile every return label issued differs from
\* every label issued before it, also for the same callee called from
\* several call sites or several times in one expression.
C7_LabelsDistinct ==
    \A i, j \in 1..Len(issued) : i # j => issued[i] # issued[j]

\* one compile with the same callee called at two call sites and twice in
\* one expression, and labels of one and of two digits among those issued
C7_Witness ==
    /\ Len(compile_src) >= 2
    /\ \E i, j \in 1..Len(compile_src) :
          /\ i # j
          /\ compile_src[i].func_t = compile_src[j].func_t
          /\ HasNestedCall(compile_src[j].args[1])
    /\ Len(issued) >= 3
    /\ \E i, j \in 1..Len(issued) :
          Len(issued[i].digits) = 1 /\ Len(issued[j].digits) = 2

\* C9: compiling the same module again, whatever was compiled before or in
\* between, gives the same IR trees, return labels included.
C9_CompileDeterministic ==
    reference.src = compile_src => reference.ir = compile_ir

=============================================================================
